---- MODULE Spec2Model ----
(***************************************************************************)
(* Latest-wins cancellation of CPU-bound matrix jobs.                      *)
(*                                                                         *)
(* Two handler variants exist: src/concurrency/v2/main.go ("v2", with the  *)
(* persistence call and the size defaulted before the oversize gate) and   *)
(* src/unnamed/part_000 ("v1", no persistence, gate checked before the     *)
(* default).  Both share activeRequests, mu, cancelPreviousRequest,        *)
(* multiplyRow and multiplyMatricesParallel.                               *)
(*                                                                         *)
(* Spec    : the handlers of NJobs requests running concurrently, each     *)
(*           step of a handler one action; the call of the multiplier is   *)
(*           a call step and a return step.                                *)
(* SpecSizes : two such requests carrying any of the size parameters.      *)
(* SpecMore : as Spec, with MaxJobs requests.                              *)
(* SpecMul : one call of multiplyMatricesParallel, statement by statement, *)
(*           with its row goroutines, on small matrices, while the         *)
(*           context may be cancelled at any moment.                       *)
(* SpecFair : the handlers of Spec or one detailed call, every goroutine   *)
(*           fairly scheduled.                                             *)
(***************************************************************************)
EXTENDS Integers, Sequences, FiniteSets, TLC

\* ---------------------------------------------------------------- bounds
NJobs == 2
MaxEntry == 1

\* ------------------------------------------------------ program constants
DefaultSize == 100
MaxSize == 2000
\* Go's int on a 32-bit build (math.MaxInt32); strconv.Atoi saturates here.
IntMax == 2147483647
IntMin == -IntMax - 1
\* math.MaxUint32 = 4294967295 = UintCut * 10 + UintLast (beyond TLC's integers).
UintCut == 429496729
UintLast == 5

\* The server starts a handler goroutine per request; one request more than
\* NJobs is sent under SpecMore.
MaxJobs == NJobs + 1
Jobs == 1..MaxJobs
NoJob == 0
Variants == {"v1", "v2"}

\* r.RemoteAddr values: host, optionally followed by ":" and a port.
RemoteAddrs ==
  { <<"h1", ":", "p1">>, <<"h1", ":", "p2">>, <<"h2", ":", "p1">>, <<"h2">> }

\* net.SplitHostPort succeeds only on host:port; otherwise the address is the key.
extractIP(remoteAddr) ==
  IF Len(remoteAddr) = 3 /\ remoteAddr[2] = ":"
    THEN <<remoteAddr[1]>>
    ELSE remoteAddr

IPs == { extractIP(addr) : addr \in RemoteAddrs }
NoIP == <<>>

\* ------------------------------------------------------------ strconv.Atoi
DigitChars == <<"0", "1", "2", "3", "4", "5", "6", "7", "8", "9">>
IsDigit(c) == \E d \in 1..10 : DigitChars[d] = c
DigitVal(c) == (CHOOSE d \in 1..10 : DigitChars[d] = c) - 1

\* strconv.ParseUint(s, 10, 32) followed by ParseInt's range check, digit by
\* digit.  mag is the magnitude read so far and st says how to read it:
\* "exact" (mag itself, at most IntMax), "min" (exactly IntMax + 1) or "big"
\* (larger, still within 32 unsigned bits).  A non-digit is a syntax error
\* (0, err); a digit that overflows 32 unsigned bits is a range error at once;
\* a magnitude beyond the signed range is a range error at the end.  A range
\* error returns the nearest bound.
RangeErr(neg) == [val |-> IF neg THEN IntMin ELSE IntMax, err |-> TRUE]
SyntaxErr == [val |-> 0, err |-> TRUE]

RECURSIVE ParseDigits(_, _, _, _, _)
ParseDigits(s, i, mag, st, neg) ==
  IF i > Len(s)
    THEN IF st = "big" THEN RangeErr(neg)
         ELSE IF st = "min"
           THEN IF neg THEN [val |-> IntMin, err |-> FALSE] ELSE RangeErr(neg)
         ELSE [val |-> IF neg THEN -mag ELSE mag, err |-> FALSE]
  ELSE IF ~IsDigit(s[i]) THEN SyntaxErr
  ELSE IF st # "exact" THEN RangeErr(neg)
  ELSE LET d == DigitVal(s[i])
           cut == IntMax \div 10
           last == IntMax % 10
       IN  IF mag < cut \/ (mag = cut /\ d <= last)
             THEN ParseDigits(s, i + 1, mag * 10 + d, "exact", neg)
           ELSE IF mag = cut /\ d = last + 1
             THEN ParseDigits(s, i + 1, mag, "min", neg)
           ELSE IF mag < UintCut \/ (mag = UintCut /\ d <= UintLast)
             THEN ParseDigits(s, i + 1, mag, "big", neg)
           ELSE RangeErr(neg)

Atoi(s) ==
  IF Len(s) = 0 THEN SyntaxErr
  ELSE LET from == IF s[1] \in {"-", "+"} THEN 2 ELSE 1
       IN  IF from > Len(s) THEN SyntaxErr
           ELSE ParseDigits(s, from, 0, "exact", s[1] = "-")

\* r.URL.Query().Get("size"): the raw parameter, "" when absent.
SizeParams ==
  { <<>>,
    <<"a", "b", "c">>,
    <<"0">>,
    <<"-", "5">>,
    <<"1">>,
    <<"2", "0", "0", "0">>,
    <<"2", "0", "0", "1">>,
    <<"9", "9", "9", "9", "9", "9", "9", "9", "9", "9">> }

\* ------------------------------------------------------------------ state
VARIABLES
  variant,         \* which handler is built: "v1" (part_000) or "v2" (main.go)
  workload,        \* what the clients send: how many requests, which size parameters
  pc,              \* pc[j]: the statement request j's handler is at
  ip,              \* ip[j]: the handler's local ip
  activeRequests,  \* the map: key -> the job whose cancel func is stored, or NoJob
  mu,              \* the mutex: the job holding it, or NoJob
  ctxDone,         \* ctxDone[j]: j's context is cancelled (ctx.Done() is closed)
  matrixSize,      \* matrixSize[j]: the handler's local matrixSize
  err,             \* err[j]: the err of strconv.Atoi is non-nil
  full,            \* full[j]: the result the multiplier returned has every cell computed
  response,        \* response[j]: what was written to w
  older,           \* history: same-key jobs that had superseded and not ended when j superseded
  found,           \* history: the job whose cancel func j's cancelPreviousRequest found, or NoJob
  atReturn,        \* history: what j's multiplier call returned to ("none" before):
                   \* "untriggered", or "triggeredPartial" / "triggeredComplete"
  \* one call of multiplyMatricesParallel in detail
  mpc, size, a, b, result, wg, mctxDone, rowPc, rowJ, rowK,
  rowJAtCancel     \* history: rowJ as it was when the context was cancelled

hvars == <<variant, workload, pc, ip, activeRequests, mu, ctxDone, matrixSize, err, full,
           response, older, found, atReturn>>
mvars == <<mpc, size, a, b, result, wg, mctxDone, rowPc, rowJ, rowK, rowJAtCancel>>
vars == <<hvars, mvars>>

NoResponse == [kind |-> "none"]
Cancelled == [kind |-> "cancelled", body |-> "Request was cancelled\n"]
CancelledLarge ==
  [kind |-> "cancelled", body |-> "Request was cancelled due to large number\n"]
StoreFailed == [kind |-> "error", body |-> "Failed to store request info"]
Success(n, complete) == [kind |-> "success", size |-> n, complete |-> complete]

\* ------------------------------------------------------- handler, per step
\* A request arrives and its handler starts: ip := extractIP(r.RemoteAddr).
\* Requests are numbered in their order of arrival.
Arrive(j) ==
  /\ pc[j] = "idle"
  /\ j <= workload.requests
  /\ IF j = 1 THEN TRUE ELSE pc[j - 1] # "idle"
  /\ \E addr \in RemoteAddrs : ip' = [ip EXCEPT ![j] = extractIP(addr)]
  /\ pc' = [pc EXCEPT ![j] = "cancelPrev"]
  /\ UNCHANGED <<variant, workload, activeRequests, mu, ctxDone, matrixSize, err, full,
                 response, older, found, atReturn, mvars>>

\* The jobs of j's key that ran their own supersede step before j's and have
\* not ended: the jobs j's request comes after.
Predecessors(j) ==
  { i \in Jobs \ {j} :
      /\ ip[i] = ip[j]
      /\ pc[i] \notin {"idle", "cancelPrev", "done"} }

\* Mutation: the cancel funcs of every key are called, not only ip's.
CancelFoundAnyKey(key, h) == \E k \in IPs : activeRequests[k] = h

\* Mutation: the cancel func of every request of the key is called, in the
\* map or not.
CancelFoundAllOfKey(key, h) == ip[h] = key /\ pc[h] \notin {"idle", "done"}

\* Mutation: the entry is deleted but its cancel func is not called.
CancelFoundNotCalled(key, h) == FALSE

\* cancelPreviousRequest(ip): what the critical section does to the context of
\* job h: cancelFunc() of the entry found under ip, if there is one.
CancelFound(key, h) == activeRequests[key] = h

\* cancelPreviousRequest(ip), from mu.Lock() to the end of the if: the lock is
\* taken and, if activeRequests[ip] exists, its cancel func is called and the
\* entry deleted.  The map is touched by nobody else while mu is held.
CancelPrevious(j) ==
  /\ pc[j] = "cancelPrev"
  /\ mu = NoJob
  /\ mu' = j
  /\ ctxDone' = [h \in Jobs |-> ctxDone[h] \/ CancelFound(ip[j], h)]
  /\ activeRequests' = [activeRequests EXCEPT ![ip[j]] = NoJob]
  /\ older' = [older EXCEPT ![j] = Predecessors(j)]
  /\ found' = [found EXCEPT ![j] = activeRequests[ip[j]]]
  /\ pc' = [pc EXCEPT ![j] = "cpUnlock"]
  /\ UNCHANGED <<variant, workload, ip, matrixSize, err, full, response, atReturn, mvars>>

\* cancelPreviousRequest: the deferred mu.Unlock()
CpUnlock(j) ==
  /\ pc[j] = "cpUnlock"
  /\ mu = j
  /\ mu' = NoJob
  /\ pc' = [pc EXCEPT ![j] = "register"]
  /\ UNCHANGED <<variant, workload, ip, activeRequests, ctxDone, matrixSize, err, full,
                 response, older, found, atReturn, mvars>>

\* Mutation: cancelPreviousRequest(ip) is called once more right after the
\* cancel func is stored, and finds it.
RegisterThenCancel(j) ==
  /\ pc[j] = "register"
  /\ mu = NoJob
  /\ mu' = j
  /\ ctxDone' = [ctxDone EXCEPT ![j] = TRUE]
  /\ activeRequests' = [activeRequests EXCEPT ![ip[j]] = NoJob]
  /\ pc' = [pc EXCEPT ![j] = "regUnlock"]
  /\ UNCHANGED <<variant, workload, ip, matrixSize, err, full, response, older, found,
                 atReturn, mvars>>

\* ctx, cancel := context.WithCancel(context.Background()); mu.Lock();
\* activeRequests[ip] = cancel
Register(j) ==
  /\ pc[j] = "register"
  /\ mu = NoJob
  /\ mu' = j
  /\ ctxDone' = [ctxDone EXCEPT ![j] = FALSE]
  /\ activeRequests' = [activeRequests EXCEPT ![ip[j]] = j]
  /\ pc' = [pc EXCEPT ![j] = "regUnlock"]
  /\ UNCHANGED <<variant, workload, ip, matrixSize, err, full, response, older, found,
                 atReturn, mvars>>

\* Mutation: the handler goes on without mu.Unlock().
RegUnlockKeeps(j) ==
  /\ pc[j] = "regUnlock"
  /\ mu = j
  /\ pc' = [pc EXCEPT ![j] = "parse"]
  /\ UNCHANGED <<variant, workload, ip, activeRequests, mu, ctxDone, matrixSize, err, full,
                 response, older, found, atReturn, mvars>>

\* mu.Unlock()
RegUnlock(j) ==
  /\ pc[j] = "regUnlock"
  /\ mu = j
  /\ mu' = NoJob
  /\ pc' = [pc EXCEPT ![j] = "parse"]
  /\ UNCHANGED <<variant, workload, ip, activeRequests, ctxDone, matrixSize, err, full,
                 response, older, found, atReturn, mvars>>

\* matrixSize, err := strconv.Atoi(r.URL.Query().Get("size"))
ParseSize(j) ==
  /\ pc[j] = "parse"
  /\ \E param \in workload.params :
       /\ matrixSize' = [matrixSize EXCEPT ![j] = Atoi(param).val]
       /\ err' = [err EXCEPT ![j] = Atoi(param).err]
  /\ pc' = [pc EXCEPT ![j] = "resolve"]
  /\ UNCHANGED <<variant, workload, ip, activeRequests, mu, ctxDone, full,
                 response, older, found, atReturn, mvars>>

\* if err != nil || matrixSize <= 0 { matrixSize = 100 }
DefaultedSize(n, e) == IF e \/ n <= 0 THEN DefaultSize ELSE n

\* main.go: the default is applied, then the gate tests the defaulted size.
ResolveV2(n, e) ==
  LET m == DefaultedSize(n, e)
  IN  IF m > MaxSize THEN [path |-> "gate", n |-> m] ELSE [path |-> "store", n |-> m]

\* part_000: the gate tests the value Atoi returned; the default is applied in
\* the else branch only.
ResolveV1(n, e) ==
  IF n > MaxSize THEN [path |-> "gate", n |-> n]
  ELSE [path |-> "mulCall", n |-> DefaultedSize(n, e)]

\* Mutation: the gate compares with ten times the limit.
ResolveWideGate(v, n, e) ==
  LET m == DefaultedSize(n, e)
  IN  IF m > MaxSize * 10 THEN [path |-> "gate", n |-> m]
      ELSE [path |-> IF v = "v2" THEN "store" ELSE "mulCall", n |-> m]

Resolve(v, n, e) == IF v = "v2" THEN ResolveV2(n, e) ELSE ResolveV1(n, e)

ResolveSize(j) ==
  /\ pc[j] = "resolve"
  /\ LET r == Resolve(variant, matrixSize[j], err[j])
     IN  /\ matrixSize' = [matrixSize EXCEPT ![j] = r.n]
         /\ pc' = [pc EXCEPT ![j] = r.path]
  /\ UNCHANGED <<variant, workload, ip, activeRequests, mu, ctxDone, err, full,
                 response, older, found, atReturn, mvars>>

\* The handler returns: its frame (matrixSize, err, result) is gone.
Return(j) ==
  /\ pc' = [pc EXCEPT ![j] = "done"]
  /\ matrixSize' = [matrixSize EXCEPT ![j] = 0]
  /\ err' = [err EXCEPT ![j] = FALSE]
  /\ full' = [full EXCEPT ![j] = FALSE]

\* select { case <-ctx.Done(): fmt.Fprintf(w, "... due to large number\n") }
Gate(j) ==
  /\ pc[j] = "gate"
  /\ ctxDone[j]
  /\ response' = [response EXCEPT ![j] = CancelledLarge]
  /\ Return(j)
  /\ UNCHANGED <<variant, workload, ip, activeRequests, mu, ctxDone, older, found, atReturn, mvars>>

\* main.go only: if err := storeRequestInfo(ip, matrixSize); err != nil {
\*   http.Error(w, "Failed to store request info", 500); return }
\* db.Exec succeeds or fails.
Store(j) ==
  /\ pc[j] = "store"
  /\ \E ok \in BOOLEAN :
       IF ok
         THEN /\ pc' = [pc EXCEPT ![j] = "mulCall"]
              /\ UNCHANGED <<response, matrixSize, err, full>>
         ELSE /\ response' = [response EXCEPT ![j] = StoreFailed]
              /\ Return(j)
  /\ UNCHANGED <<variant, workload, ip, activeRequests, mu, ctxDone, older, found, atReturn, mvars>>

\* a := generateMatrix(..); b := generateMatrix(..); the call of
\* multiplyMatricesParallel(ctx, a, b, matrixSize) begins.
MulCall(j) ==
  /\ pc[j] = "mulCall"
  /\ pc' = [pc EXCEPT ![j] = "mulWait"]
  /\ UNCHANGED <<variant, workload, ip, activeRequests, mu, ctxDone, matrixSize, err, full,
                 response, older, found, atReturn, mvars>>

\* What the call can return (checked on the detailed call under SpecMul): with
\* the context never cancelled every cell is computed; with it cancelled the
\* rows stop wherever their next check finds them.
Completeness(cancelled) == IF cancelled THEN BOOLEAN ELSE {TRUE}

\* wg.Wait() returns: result := multiplyMatricesParallel(...)
MulReturn(j) ==
  /\ pc[j] = "mulWait"
  /\ \E c \in Completeness(ctxDone[j]) : full' = [full EXCEPT ![j] = c]
  /\ atReturn' = [atReturn EXCEPT ![j] =
                     IF ~ctxDone[j] THEN "untriggered"
                     ELSE IF full'[j] THEN "triggeredComplete" ELSE "triggeredPartial"]
  /\ pc' = [pc EXCEPT ![j] = "report"]
  /\ UNCHANGED <<variant, workload, ip, activeRequests, mu, ctxDone, matrixSize, err,
                 response, older, found, mvars>>

\* Mutation: a matrix that came back complete is reported although the
\* context is cancelled.
OutcomeIfComplete(cancelled, n, complete) ==
  IF cancelled /\ ~complete THEN Cancelled ELSE Success(n, complete)

\* Mutation: the matrix is reported without looking at ctx.Done().
OutcomeUnchecked(cancelled, n, complete) == Success(n, complete)

\* select { case <-ctx.Done(): "Request was cancelled\n"; default: the matrix }
Outcome(cancelled, n, complete) ==
  IF cancelled THEN Cancelled ELSE Success(n, complete)

Report(j) ==
  /\ pc[j] = "report"
  /\ response' = [response EXCEPT ![j] = Outcome(ctxDone[j], matrixSize[j], full[j])]
  /\ Return(j)
  /\ UNCHANGED <<variant, workload, ip, activeRequests, mu, ctxDone, older, found, atReturn, mvars>>

MulIdle ==
  /\ mpc = "off" /\ size = 0 /\ a = <<>> /\ b = <<>> /\ result = <<>>
  /\ wg = 0 /\ mctxDone = FALSE /\ rowPc = <<>> /\ rowJ = <<>> /\ rowK = <<>>
  /\ rowJAtCancel = <<>>

\* The state after main() has set up the server: no request yet.
Start(load) ==
  /\ variant \in Variants
  /\ workload = load
  /\ pc = [j \in Jobs |-> "idle"]
  /\ ip = [j \in Jobs |-> NoIP]
  /\ activeRequests = [k \in IPs |-> NoJob]
  /\ mu = NoJob
  /\ ctxDone = [j \in Jobs |-> FALSE]
  /\ matrixSize = [j \in Jobs |-> 0]
  /\ err = [j \in Jobs |-> FALSE]
  /\ full = [j \in Jobs |-> FALSE]
  /\ response = [j \in Jobs |-> NoResponse]
  /\ older = [j \in Jobs |-> {}]
  /\ found = [j \in Jobs |-> NoJob]
  /\ atReturn = [j \in Jobs |-> "none"]
  /\ MulIdle

Next ==
  \E j \in Jobs :
    \/ Arrive(j)
    \/ CancelPrevious(j)
    \/ CpUnlock(j)
    \/ Register(j)
    \/ RegUnlock(j)
    \/ ParseSize(j)
    \/ ResolveSize(j)
    \/ Gate(j)
    \/ (variant = "v2" /\ Store(j))
    \/ MulCall(j)
    \/ MulReturn(j)
    \/ Report(j)

\* NJobs requests, each of the largest computable size or of the smallest
\* oversize.
Init ==
  Start([requests |-> NJobs,
         params |-> {<<"2", "0", "0", "0">>, <<"2", "0", "0", "1">>}])

Spec == Init /\ [][Next]_vars

\* As Init, with one request more.
InitMore ==
  Start([requests |-> MaxJobs,
         params |-> {<<"2", "0", "0", "0">>, <<"2", "0", "0", "1">>}])

SpecMore == InitMore /\ [][Next]_vars

\* Two requests carrying any of the size parameters.
InitSizes == Start([requests |-> 2, params |-> SizeParams])

SpecSizes == InitSizes /\ [][Next]_vars

\* ------------------------------------ multiplyMatricesParallel, in detail
\* Matrix sides of the detailed call.
Sizes == {1, 2}

\* generateMatrix(size): size rows of size entries, each rand.Intn(100); the
\* entries are bounded by MaxEntry here.
Entries == 0..MaxEntry
generateMatrix(n) == [1..n -> [1..n -> Entries]]

\* result := make([][]int, size) with zeroed rows
ZeroMatrix(n) == [i \in 1..n |-> [j \in 1..n |-> 0]]

\* The reference product: the sum over k of x[i][k] * y[k][j].
RECURSIVE DotProduct(_, _, _, _, _)
DotProduct(x, y, i, j, k) ==
  IF k = 0 THEN 0 ELSE DotProduct(x, y, i, j, k - 1) + x[i][k] * y[k][j]

Product(x, y, n) == [i \in 1..n |-> [j \in 1..n |-> DotProduct(x, y, i, j, n)]]

\* The loop of multiplyMatricesParallel: wg.Add(1); go multiplyRow(.., i, ..)
\* for the next row i.  rowJ and rowK are the goroutine's loop counters.
MulSpawn ==
  /\ mpc = "spawn"
  /\ Len(rowPc) < size
  /\ wg' = wg + 1
  /\ rowPc' = Append(rowPc, "select")
  /\ rowJ' = Append(rowJ, 1)
  /\ rowK' = Append(rowK, 1)
  /\ UNCHANGED <<hvars, mpc, size, a, b, result, mctxDone, rowJAtCancel>>

\* The loop ends: wg.Wait() is reached.
MulSpawned ==
  /\ mpc = "spawn"
  /\ Len(rowPc) = size
  /\ mpc' = "wait"
  /\ UNCHANGED <<hvars, size, a, b, result, wg, mctxDone, rowPc, rowJ, rowK, rowJAtCancel>>

\* Mutation: the call returns without waiting for the counter.
MulWaitNoBarrier ==
  /\ mpc = "wait"
  /\ mpc' = "returned"
  /\ UNCHANGED <<hvars, size, a, b, result, wg, mctxDone, rowPc, rowJ, rowK, rowJAtCancel>>

\* wg.Wait() returns once the counter is zero; return result.
MulWait ==
  /\ mpc = "wait"
  /\ wg = 0
  /\ mpc' = "returned"
  /\ UNCHANGED <<hvars, size, a, b, result, wg, mctxDone, rowPc, rowJ, rowK, rowJAtCancel>>

\* Mutation: ctx.Done() is polled before the odd columns only.
RowStopsOddOnly(j, cancelled) == j > size \/ (cancelled /\ j % 2 = 1)

\* multiplyRow, the head of the j loop and its select: past the last column,
\* or with ctx.Done() closed, the goroutine returns and the deferred wg.Done()
\* runs; otherwise the default case starts the k loop.
RowStops(j, cancelled) == j > size \/ cancelled

\* Mutation: a row that finds the context cancelled returns without
\* wg.Done().
RowSelectNoDone(i) ==
  /\ i \in 1..Len(rowPc)
  /\ rowPc[i] = "select"
  /\ IF RowStops(rowJ[i], mctxDone)
       THEN /\ rowPc' = [rowPc EXCEPT ![i] = "done"]
            /\ wg' = IF mctxDone THEN wg ELSE wg - 1
            /\ rowK' = rowK
       ELSE /\ rowPc' = [rowPc EXCEPT ![i] = "inner"]
            /\ rowK' = [rowK EXCEPT ![i] = 1]
            /\ wg' = wg
  /\ UNCHANGED <<hvars, mpc, size, a, b, result, mctxDone, rowJ, rowJAtCancel>>

RowSelect(i) ==
  /\ i \in 1..Len(rowPc)
  /\ rowPc[i] = "select"
  /\ IF RowStops(rowJ[i], mctxDone)
       THEN /\ rowPc' = [rowPc EXCEPT ![i] = "done"]
            /\ wg' = wg - 1
            /\ rowK' = rowK
       ELSE /\ rowPc' = [rowPc EXCEPT ![i] = "inner"]
            /\ rowK' = [rowK EXCEPT ![i] = 1]
            /\ wg' = wg
  /\ UNCHANGED <<hvars, mpc, size, a, b, result, mctxDone, rowJ, rowJAtCancel>>

\* Mutation: b is read transposed.
AccumulateTransposed(row, j, k) ==
  [result EXCEPT ![row][j] = result[row][j] + a[row][k] * b[j][k]]

\* result[row][j] += a[row][k] * b[k][j]
Accumulate(row, j, k) ==
  [result EXCEPT ![row][j] = result[row][j] + a[row][k] * b[k][j]]

\* Mutation: ctx.Done() is polled in the k loop too, and a cancelled row
\* returns from the middle of a column.
RowInnerPolling(i) ==
  /\ i \in 1..Len(rowPc)
  /\ rowPc[i] = "inner"
  /\ IF mctxDone
       THEN /\ rowPc' = [rowPc EXCEPT ![i] = "done"]
            /\ wg' = wg - 1
            /\ UNCHANGED <<result, rowJ, rowK>>
       ELSE /\ result' = Accumulate(i, rowJ[i], rowK[i])
            /\ wg' = wg
            /\ IF rowK[i] < size
                 THEN /\ rowK' = [rowK EXCEPT ![i] = rowK[i] + 1]
                      /\ UNCHANGED <<rowJ, rowPc>>
                 ELSE /\ rowJ' = [rowJ EXCEPT ![i] = rowJ[i] + 1]
                      /\ rowPc' = [rowPc EXCEPT ![i] = "select"]
                      /\ rowK' = rowK
  /\ UNCHANGED <<hvars, mpc, size, a, b, mctxDone, rowJAtCancel>>

\* multiplyRow, one turn of the k loop; after the last k, j++.
RowInner(i) ==
  /\ i \in 1..Len(rowPc)
  /\ rowPc[i] = "inner"
  /\ result' = Accumulate(i, rowJ[i], rowK[i])
  /\ IF rowK[i] < size
       THEN /\ rowK' = [rowK EXCEPT ![i] = rowK[i] + 1]
            /\ UNCHANGED <<rowJ, rowPc>>
       ELSE /\ rowJ' = [rowJ EXCEPT ![i] = rowJ[i] + 1]
            /\ rowPc' = [rowPc EXCEPT ![i] = "select"]
            /\ rowK' = rowK
  /\ UNCHANGED <<hvars, mpc, size, a, b, wg, mctxDone, rowJAtCancel>>

\* The cancel func of the context the call was given is called (by the
\* cancelPreviousRequest of a later request of the same key), at any moment.
CtxCancel ==
  /\ mpc # "off"
  /\ ~mctxDone
  /\ mctxDone' = TRUE
  /\ rowJAtCancel' = rowJ
  /\ UNCHANGED <<hvars, mpc, size, a, b, result, wg, rowPc, rowJ, rowK>>

\* multiplyMatricesParallel(ctx, a, b, size) is entered with generated
\* matrices and has allocated result; no handler is modelled beside it.
InitMul ==
  /\ variant = "v2"
  /\ workload = [requests |-> 0, params |-> {}]
  /\ pc = [j \in Jobs |-> "idle"]
  /\ ip = [j \in Jobs |-> NoIP]
  /\ activeRequests = [k \in IPs |-> NoJob]
  /\ mu = NoJob
  /\ ctxDone = [j \in Jobs |-> FALSE]
  /\ matrixSize = [j \in Jobs |-> 0]
  /\ err = [j \in Jobs |-> FALSE]
  /\ full = [j \in Jobs |-> FALSE]
  /\ response = [j \in Jobs |-> NoResponse]
  /\ older = [j \in Jobs |-> {}]
  /\ found = [j \in Jobs |-> NoJob]
  /\ atReturn = [j \in Jobs |-> "none"]
  /\ mpc = "spawn"
  /\ size \in Sizes
  /\ a \in generateMatrix(size)
  /\ b \in generateMatrix(size)
  /\ result = ZeroMatrix(size)
  /\ wg = 0
  /\ mctxDone = FALSE
  /\ rowPc = <<>>
  /\ rowJ = <<>>
  /\ rowK = <<>>
  /\ rowJAtCancel = <<>>

NextMul ==
  \/ MulSpawn
  \/ MulSpawned
  \/ MulWait
  \/ \E i \in 1..size : RowSelect(i)
  \/ \E i \in 1..size : RowInner(i)
  \/ CtxCancel

SpecMul == InitMul /\ [][NextMul]_vars

\* ------------------------------------------------------- fair scheduling
\* The steps of request j's handler goroutine once the request has arrived.
JobStep(j) ==
  \/ CancelPrevious(j)
  \/ CpUnlock(j)
  \/ Register(j)
  \/ RegUnlock(j)
  \/ ParseSize(j)
  \/ ResolveSize(j)
  \/ Gate(j)
  \/ (variant = "v2" /\ Store(j))
  \/ MulCall(j)
  \/ MulReturn(j)
  \/ Report(j)

\* The steps of the goroutine that called multiplyMatricesParallel.
CallerStep == MulSpawn \/ MulSpawned \/ MulWait

\* The rows a call has at most.
Rows == UNION { 1..n : n \in Sizes }

\* The steps of row goroutine i.
RowStep(i) == RowSelect(i) \/ RowInner(i)

\* The Go scheduler runs every runnable goroutine again and again: a
\* goroutine that can take a step, and stays able to, takes it.  Requests
\* arrive, and contexts are cancelled from outside a call, when the clients
\* choose.
Fairness ==
  /\ \A j \in Jobs : WF_vars(JobStep(j))
  /\ WF_vars(CallerStep)
  /\ \A i \in Rows : WF_vars(RowStep(i))

\* The detailed call on matrices of one content: which statement a goroutine
\* of the call executes next does not depend on the entries.
InitMulFair ==
  /\ InitMul
  /\ a = [i \in 1..size |-> [j \in 1..size |-> MaxEntry]]
  /\ b = a

\* Either the handlers of NJobs requests, the multiplier call of each a call
\* step and a return step, or one multiplier call in detail; fairly
\* scheduled.
SpecFair == (Init \/ InitMulFair) /\ [][Next \/ NextMul]_vars /\ Fairness

\* ================================================================ claims
Handled == {"success", "cancelled"}
Computing == {"store", "mulCall", "mulWait", "report"}
\* j has run its supersede step (cancelPreviousRequest's critical section).
Superseded(j) == pc[j] \notin {"idle", "cancelPrev"}
\* j's handle exists, j has not ended and the handle is not triggered.
Active(j) ==
  /\ pc[j] \in {"regUnlock", "parse", "resolve", "gate"} \cup Computing
  /\ ~ctxDone[j]

\* C1 (latest-wins): for two jobs of one key where J2 ran its supersede step
\* after J1's and before J1 ended, J1's outcome (when the handler reports one
\* of its own) is "cancelled", and J1 and J2 do not both report success.
C1_LatestWins ==
  \A j1, j2 \in Jobs :
    j1 \in older[j2] =>
      /\ (pc[j1] = "done" /\ response[j1].kind \in Handled)
           => response[j1].kind = "cancelled"
      /\ ~(response[j1].kind = "success" /\ response[j2].kind = "success")

\* C2 (one active handle per key): in every state each key has at most one
\* active handle, and a job that has begun its work has seen the handles of
\* the jobs it came after triggered.
C2_OneActiveHandle ==
  /\ \A k \in IPs : Cardinality({ j \in Jobs : ip[j] = k /\ Active(j) }) <= 1
  /\ \A j1, j2 \in Jobs :
       (j1 \in older[j2] /\ pc[j2] \in {"gate"} \cup Computing /\ pc[j1] # "done")
         => ctxDone[j1]

\* C3 (registry cleanup): once a job has ended, the registry entry of its key
\* is not its own handle, and a job that reported success has its handle
\* triggered.
C3_RegistryCleanup ==
  \A j \in Jobs :
    (pc[j] = "done" /\ response[j].kind \in Handled) =>
      /\ activeRequests[ip[j]] # j
      /\ (response[j].kind = "success" => ctxDone[j])

\* A step of job j leaves the registry entries of the other keys alone and
\* triggers handles of j's key only, never j's own.
C4_StepIsolated ==
  \A j \in Jobs :
    pc'[j] # pc[j] =>
      /\ \A k \in IPs : k # ip'[j] => activeRequests'[k] = activeRequests[k]
      /\ \A h \in Jobs : (ctxDone'[h] /\ ~ctxDone[h]) => (h # j /\ ip[h] = ip'[j])

\* A job that reported "cancelled" was in flight when a job of its key ran
\* its supersede step.
C4_CancelledBySameKey ==
  \A j \in Jobs :
    response[j].kind = "cancelled" =>
      \E i \in Jobs \ {j} : ip[i] = ip[j] /\ j \in older[i]

\* C4 (key isolation): a step of a job changes no registry entry of another
\* key and triggers no handle of a job of another key; a job reports
\* "cancelled" only if a job of its own key has run its supersede step.
C4_KeyIsolation == [][C4_StepIsolated]_vars /\ []C4_CancelledBySameKey

\* A job runs its supersede step while a job of another key, registered all
\* along, is inside its multiplier call and stays untriggered.
C4_Witness ==
  \E j, h \in Jobs :
    /\ ip[j] # ip[h]
    /\ pc[j] = "cpUnlock"
    /\ pc[h] = "mulWait" /\ ~ctxDone[h] /\ activeRequests[ip[h]] = h

\* C5 (no partial exposure): a job whose handle was triggered before its
\* multiplier call returned reports exactly the cancelled message, whether
\* the call returned a partial or a complete matrix.
C5_NoPartialExposure ==
  \A j \in Jobs :
    (pc[j] = "done" /\ atReturn[j] \in {"triggeredPartial", "triggeredComplete"})
      => response[j] = Cancelled

\* A job cancelled inside its multiplier call, which returned a matrix with
\* rows left unfinished, has reported the cancelled message.
C5_Witness ==
  \E j \in Jobs :
    pc[j] = "done" /\ atReturn[j] = "triggeredPartial" /\ response[j] = Cancelled

\* C6 (multiplier correctness): when multiplyMatricesParallel returns and its
\* context was not cancelled, the result is the product of a and b.
C6_ProductCorrect ==
  (mpc = "returned" /\ ~mctxDone) => result = Product(a, b, size)

\* A 2 x 2 call has returned, uncancelled, with a result that is not symmetric.
C6_Witness ==
  /\ mpc = "returned" /\ ~mctxDone /\ size = 2
  /\ result[1][2] # result[2][1]
  /\ result[1][1] = 2

\* A job at the gate stays there, silent, or leaves it with its own handle
\* triggered, writing the large-number message and returning.
C7_GateStep ==
  \A j \in Jobs :
    pc[j] = "gate" =>
      \/ pc'[j] = "gate" /\ response'[j] = NoResponse
      \/ pc'[j] = "done" /\ ctxDone[j] /\ response'[j] = CancelledLarge

\* The compute path holds sizes of 1..MaxSize only, the gate oversizes only;
\* the large-number message comes from a job that never called the
\* multiplier, whose handle was triggered by a job of its key that ran its
\* supersede step after it.
C7_GateState ==
  \A j \in Jobs :
    /\ pc[j] \in Computing => (matrixSize[j] >= 1 /\ matrixSize[j] <= MaxSize)
    /\ pc[j] = "gate" => (matrixSize[j] > MaxSize /\ response[j] = NoResponse)
    /\ response[j] = CancelledLarge =>
         /\ ctxDone[j] /\ atReturn[j] = "none"
         /\ \E i \in Jobs \ {j} : ip[i] = ip[j] /\ j \in older[i]

\* C7 (oversize gate, safety): a job whose size exceeds MaxSize never reaches
\* the compute path and never reports success; it writes nothing unless its
\* own handle is triggered, which takes a later supersede step of a job of
\* its key, and then writes only the large-number message.
C7_OversizeGate == [][C7_GateStep]_vars /\ []C7_GateState

\* An oversized job has been cancelled and has reported, and another one is
\* still waiting at the gate.
C7_Witness ==
  /\ \E j \in Jobs : pc[j] = "done" /\ response[j] = CancelledLarge
  /\ \E j \in Jobs : pc[j] = "gate" /\ ~ctxDone[j]

\* C8 (oversize gate, response): an oversized job J1 followed by a later
\* request J2 of its key reports the large-number message.  A handle is
\* triggered only through the registry entry of its key, so once J2 has ended
\* J1 must be triggered already or its handle must still be that entry:
\* otherwise J1 waits at the gate for ever.
C8_OversizeResponds ==
  \A j1, j2 \in Jobs :
    (/\ j1 < j2 /\ ip[j1] = ip[j2] /\ pc[j1] = "gate"
     /\ pc[j2] = "done" /\ response[j2].kind \in Handled)
      => (ctxDone[j1] \/ activeRequests[ip[j1]] = j1)

\* The step that resolves the size of job j, as the claim has it.
C9_ResolveStep ==
  \A j \in Jobs :
    (pc[j] = "resolve" /\ pc'[j] # "resolve") =>
      IF err[j] \/ matrixSize[j] <= 0
        THEN matrixSize'[j] = DefaultSize /\ pc'[j] \in Computing
        ELSE matrixSize[j] <= MaxSize
               => (matrixSize'[j] = matrixSize[j] /\ pc'[j] \in Computing)

\* C9 (default size): the step that resolves the size turns a failed parse or
\* a non-positive value into DefaultSize on the compute path, and keeps a
\* valid size of at most MaxSize as it is, in both handler variants.
C9_DefaultSize == [][C9_ResolveStep]_vars

\* C10 (terminal outcomes): a job that has returned has reported success or
\* cancelled, whatever storeRequestInfo returned.
C10_TerminalOutcomes ==
  \A j \in Jobs : pc[j] = "done" => response[j].kind \in Handled

\* J1 has completed its register step (mu.Unlock() at the end of it) and has
\* not returned.
Registered(j) == pc[j] \notin {"idle", "cancelPrev", "cpUnlock", "register", "regUnlock", "done"}

\* The supersede step of j2 leaves triggered the handle of every job of its
\* key that has completed its register step and is still running.
C11_SupersedeStep ==
  \A j1, j2 \in Jobs :
    (/\ j1 # j2 /\ ip[j1] = ip[j2] /\ Registered(j1)
     /\ pc[j2] = "cancelPrev" /\ pc'[j2] = "cpUnlock")
      => ctxDone'[j1]

\* C11 (supersede finds the registered handle): if J2's supersede step starts
\* after J1's register step has completed, J1's handle is triggered when the
\* step ends, whatever other jobs of the key do, including a job that
\* superseded before J1 registered and registers after.
C11_SupersedeFindsRegistered == [][C11_SupersedeStep]_vars

\* A step of job j up to the end of its register step leaves j's own handle
\* untriggered.
C12_OwnStep ==
  \A j \in Jobs :
    (pc[j] \in {"cancelPrev", "cpUnlock", "register", "regUnlock"} /\ pc'[j] # pc[j])
      => ~ctxDone'[j]

\* Until a job has finished registering, its handle is untriggered.
C12_UntilRegistered ==
  \A j \in Jobs :
    pc[j] \in {"cancelPrev", "cpUnlock", "register", "regUnlock"} => ~ctxDone[j]

\* C12 (no self-cancellation): a job's supersede and register steps never
\* trigger the job's own handle; the handle is untriggered at the moment the
\* job finishes registering it.
C12_OwnHandleUntriggered == [][C12_OwnStep]_vars /\ []C12_UntilRegistered

\* A job has just stored its handle after its supersede step triggered the
\* handle of a running job of its key.
C12_Witness ==
  \E j, h \in Jobs :
    /\ pc[j] = "regUnlock" /\ activeRequests[ip[j]] = j /\ ~ctxDone[j]
    /\ h \in older[j] /\ ctxDone[h] /\ pc[h] # "done"

\* The register step of a job makes its handle the entry of its key, and no
\* later step of the job up to and including the gate changes the registry.
C13_Step ==
  \A j \in Jobs :
    /\ (pc[j] = "register" /\ pc'[j] = "regUnlock") => activeRequests'[ip[j]] = j
    /\ (pc[j] \in {"regUnlock", "parse", "resolve", "gate"} /\ pc'[j] # pc[j])
         => activeRequests' = activeRequests

\* An oversized job, at the gate or after answering from it, ran its
\* supersede step: the handle it found under its key is triggered.
C13_AtGate ==
  \A j \in Jobs :
    (pc[j] = "gate" \/ response[j] = CancelledLarge) =>
      (found[j] # NoJob => (ip[found[j]] = ip[j] /\ ctxDone[found[j]]))

\* C13 (oversized jobs take part): a job whose size is above MaxSize has run
\* its supersede and register steps before the gate check: the handle it
\* found registered under its key is triggered, and its own handle became
\* the entry of the key, which the job itself does not touch again.
C13_OversizeTakesPart == [][C13_Step]_vars /\ []C13_AtGate

\* An oversized job waits at the gate, its handle the entry of its key, after
\* its supersede step found and triggered the handle of a job still running.
C13_Witness ==
  \E j \in Jobs :
    /\ pc[j] = "gate" /\ ~ctxDone[j] /\ activeRequests[ip[j]] = j
    /\ found[j] # NoJob /\ ctxDone[found[j]] /\ pc[found[j]] = "mulWait"

\* When the call has returned, every one of the size row goroutines has
\* been started and has returned.
C14_AllRowsDone ==
  mpc = "returned" =>
    /\ Len(rowPc) = size
    /\ \A i \in 1..size : rowPc[i] = "done"
    /\ wg = 0

\* Once the call has returned, result is not written.
C14_NoLateWrite == mpc = "returned" => result' = result

\* C14 (fan-in barrier): multiplyMatricesParallel returns only after all the
\* row goroutines it started have returned, whether or not the context was
\* cancelled, and result is not written after the return.
C14_FanInBarrier == []C14_AllRowsDone /\ [][C14_NoLateWrite]_vars

\* A 2 x 2 call cancelled on its way has returned with both rows stopped,
\* one of them before its last column.
C14_Witness ==
  /\ mpc = "returned" /\ mctxDone /\ size = 2
  /\ rowPc = <<"done", "done">>
  /\ rowJ[1] = 3 /\ rowJ[2] = 2

\* C15 (cooperative cancellation shape): when multiplyMatricesParallel
\* returns, each row i holds the full dot product in the columns its
\* goroutine went through (those before rowJ[i]) and the initial 0 in every
\* column after them: no cell holds a partial sum, and the computed cells
\* of a row are a prefix of it.
C15_PrefixShape ==
  mpc = "returned" =>
    \A i \in 1..size :
      /\ rowJ[i] \in 1..(size + 1)
      /\ \A j \in 1..size :
           result[i][j] = IF j < rowJ[i] THEN DotProduct(a, b, i, j, size) ELSE 0

\* A cancelled 2 x 2 call has returned with row 1 stopped after its first
\* column: that cell holds its dot product, 2, and the second cell is still
\* 0 although its dot product is not.
C15_Witness ==
  /\ mpc = "returned" /\ mctxDone /\ size = 2
  /\ rowJ[1] = 2
  /\ result[1][1] = 2 /\ result[1][2] = 0
  /\ DotProduct(a, b, 1, 2, 2) # 0

\* The column row i was at when the context was cancelled; a row started
\* after that begins at column 1.
C16_ColumnAtCancel(i) == IF i <= Len(rowJAtCancel) THEN rowJAtCancel[i] ELSE 1

\* C16 (bounded cancellation latency): once the context is cancelled each
\* row goroutine goes at most one column further, and a row that has moved on
\* to the next column has stopped or is at the check that stops it.
C16_BoundedLatency ==
  mctxDone =>
    \A i \in 1..Len(rowJ) :
      /\ rowJ[i] - C16_ColumnAtCancel(i) <= 1
      /\ rowJ[i] - C16_ColumnAtCancel(i) = 1 => rowPc[i] \in {"select", "done"}

\* A 2 x 2 call cancelled while row 1 was inside its first column and row 2
\* at the check of its first column: row 1 finished that column and stopped
\* with the second one left, row 2 stopped at once.
C16_Witness ==
  /\ mctxDone /\ size = 2 /\ mpc = "returned"
  /\ rowJAtCancel = <<1, 1>>
  /\ rowJ = <<2, 1>>

\* C17 (termination): under fair scheduling every handler that is past its
\* arrival and not at the oversize gate gets to the gate or returns (it never
\* waits for ever for mu), a handler on the compute path returns, triggered
\* or not, and a call of multiplyMatricesParallel returns with every row
\* goroutine ended, cancelled or not.
C17_Terminates ==
  /\ \A j \in Jobs :
       /\ (pc[j] \notin {"idle", "gate", "done"}) ~> (pc[j] \in {"gate", "done"})
       /\ (pc[j] \in Computing) ~> (pc[j] = "done")
  /\ (mpc \in {"spawn", "wait"})
       ~> (mpc = "returned" /\ \A i \in 1..size : rowPc[i] = "done")

\* A handler triggered during its multiplier call has returned while an
\* oversized one still waits at the gate.
C17_Witness ==
  \E j, h \in Jobs :
    /\ pc[j] = "done" /\ atReturn[j] # "none" /\ ctxDone[j]
    /\ pc[h] = "gate"

\* The mutex is held only inside the two critical sections: by a job between
\* its supersede step and the unlock after it, or between its register step
\* and the unlock after it; never by a job that parses, computes, waits at
\* the gate, reports or has returned.  The holder can always unlock.
C18_Holder ==
  /\ mu # NoJob => (mu \in Jobs /\ pc[mu] \in {"cpUnlock", "regUnlock"})
  /\ \A j \in Jobs : pc[j] \in {"cpUnlock", "regUnlock"} => mu = j
  /\ mu # NoJob => ENABLED (CpUnlock(mu) \/ RegUnlock(mu))

\* A step that reads or writes the map, or triggers a handle, is the step of
\* a job that takes the free mutex and keeps it; a handle is triggered in the
\* same step that found it as the entry of its key and deleted the entry.
C18_Step ==
  /\ (activeRequests' # activeRequests \/ found' # found \/ ctxDone' # ctxDone)
       => (mu = NoJob /\ mu' \in Jobs /\ pc[mu'] \in {"cancelPrev", "register"})
  /\ \A h \in Jobs :
       (ctxDone'[h] /\ ~ctxDone[h])
         => (activeRequests[ip[h]] = h /\ activeRequests'[ip[h]] = NoJob
             /\ pc[mu'] = "cancelPrev" /\ ip[mu'] = ip[h])

\* C18 (lock discipline): the map is read and written under mu only, the
\* check, trigger and delete of a supersede are one critical section, and mu
\* is never held by a job that computes, waits at the oversize gate or
\* reports: while a job waits at the gate the mutex is free or its holder is
\* at its unlock.
C18_LockDiscipline == []C18_Holder /\ [][C18_Step]_vars

\* While an oversized job waits untriggered at the gate, another job is
\* inside the critical section of its register step.
C18_Witness ==
  \E j, h \in Jobs :
    /\ pc[h] = "gate" /\ ~ctxDone[h]
    /\ pc[j] = "regUnlock" /\ mu = j /\ activeRequests[ip[j]] = j

\* Every row goroutine of the call went through all its columns.
C19_AllColumns == \A i \in 1..size : rowJ[i] = size + 1

\* What the handler reports of the returned call at its post-compute check.
C19_Reported == Outcome(mctxDone, size, C19_AllColumns)

\* When the handler's report of a returned call is success, result is the
\* product of a and b and every row ran all its columns.
C19_SuccessIsProduct ==
  (mpc = "returned" /\ C19_Reported.kind = "success") =>
    /\ C19_Reported.complete
    /\ result = Product(a, b, size)

\* C19 (success means complete): whenever the post-compute check of the
\* handler reports success, the matrix is the complete product of a and b,
\* every row having run all its columns; a cancelled context never becomes
\* uncancelled, so it was uncancelled at every check of every row.
C19_SuccessComplete == []C19_SuccessIsProduct /\ [][mctxDone => mctxDone']_vars

\* A 2 x 2 call has returned and is reported as success, with a product
\* whose four cells differ from the initial 0.
C19_Witness ==
  /\ mpc = "returned" /\ size = 2 /\ C19_Reported.kind = "success"
  /\ \A i, j \in 1..2 : result[i][j] > 0
  /\ result[2][2] = 1

\* h has registered, is still running with its handle untriggered, and the
\* entry of its key is no longer its handle: the register step of another
\* job has overwritten it.
Overwritten(h) ==
  /\ pc[h] \in {"parse", "resolve", "gate"} \cup Computing
  /\ ~ctxDone[h]
  /\ activeRequests[ip[h]] # h

\* A handle is triggered only by the supersede step of a job of its key that
\* finds it as the entry of the key.
C20_TriggerStep ==
  \A h \in Jobs :
    (ctxDone'[h] /\ ~ctxDone[h]) =>
      /\ activeRequests[ip[h]] = h
      /\ \E j \in Jobs \ {h} :
           pc[j] = "cancelPrev" /\ pc'[j] = "cpUnlock" /\ ip[j] = ip[h]

\* An overwritten handle stays untriggered and overwritten while its job runs.
C20_StaysOverwritten ==
  \A h \in Jobs :
    Overwritten(h) =>
      /\ ~ctxDone'[h]
      /\ pc'[h] # "done" => Overwritten(h)'

\* A job that computes or reports (the store, where there is one, is behind
\* it) with an overwritten handle ends only by reporting success; no job
\* with an overwritten handle ends with a cancelled message; one at the gate
\* does not leave the gate.
C20_EndStep ==
  \A h \in Jobs :
    Overwritten(h) =>
      /\ (pc[h] \in {"mulCall", "mulWait", "report"} /\ pc'[h] = "done")
           => response'[h].kind = "success"
      /\ pc'[h] = "done" => response'[h].kind # "cancelled"
      /\ pc[h] = "gate" => pc'[h] = "gate"

C21_VariantsAgree ==
  \A j \in Jobs :
    pc[j] = "resolve" =>
      LET r1 == ResolveV1(matrixSize[j], err[j])
          r2 == ResolveV2(matrixSize[j], err[j])
      IN  /\ (r1.path = "gate") <=> (r2.path = "gate")
          /\ r1.n = r2.n

====
